---- MODULE Spec2Model ----
(***************************************************************************)
(* Model of the brain MCP server: the transport loop of main, the          *)
(* dispatcher BrainServer::handle_request, the search engine               *)
(* search::search_files and the content collaborator                       *)
(* content::get_contents (mcp/server/src).                                 *)
(***************************************************************************)
EXTENDS Integers, Sequences, FiniteSets, TLC

(***************************************************************************)
(* Bounds of the model.                                                    *)
(***************************************************************************)
\* number of input lines the stream delivers before it closes or fails
MaxLines == 2
\* largest knowledge.max_files a configuration carries (0 included)
MaxFilesBound == 2

(***************************************************************************)
(* serde_json::Value.  A value is a record tagged by t; an object carries  *)
(* a record of the keys the code looks at, a key that is not in the JSON   *)
(* text holding Absent (Value::get then yields None).                      *)
(***************************************************************************)
Absent == [t |-> "absent"]
Null == [t |-> "null"]
Num(n) == [t |-> "num", v |-> n]
Str(s) == [t |-> "str", v |-> s]
Arr(items) == [t |-> "arr", v |-> items]
Obj(fields) == [t |-> "obj", v |-> fields]

\* Value::get(key): None (Absent) unless the value is an object with the key
Get(value, key) ==
    IF value.t = "obj" /\ key \in DOMAIN value.v THEN value.v[key] ELSE Absent

\* Value::as_str / Value::as_array succeed on exactly one variant
IsStr(value) == value.t = "str"
IsArray(value) == value.t = "arr"

\* .iter().filter_map(|k| k.as_str().map(|s| s.to_string())).collect()
RECURSIVE FilterStrings(_)
FilterStrings(items) ==
    IF items = <<>> THEN <<>>
    ELSE IF IsStr(Head(items))
         THEN <<Head(items).v>> \o FilterStrings(Tail(items))
         ELSE FilterStrings(Tail(items))

(***************************************************************************)
(* Text.  A string of the vocabulary is named by a TLA+ string; Chars      *)
(* gives its characters.  The alphabet is a, A, b.                         *)
(***************************************************************************)
Chars(s) ==
    CASE s = "" -> <<>>
      [] s = "a" -> <<"a">>
      [] s = "A" -> <<"A">>
      [] s = "b" -> <<"b">>
      [] s = "ab" -> <<"a", "b">>
      [] s = "aa" -> <<"a", "a">>
      [] s = "aaa" -> <<"a", "a", "a">>
      [] s = "aAb" -> <<"a", "A", "b">>
      [] s = "abAB" -> <<"a", "b", "A", "B">>
      [] s = "bab" -> <<"b", "a", "b">>
      [] s = "bb" -> <<"b", "b">>

\* simple case folding, what (?i) compares under
Fold(c) == IF c = "A" THEN "a" ELSE IF c = "B" THEN "b" ELSE c

\* a pattern compiled without (?i)
MatchAt_CaseSensitive(text, pat, i) ==
    \A j \in 1..Len(pat) : text[i + j - 1] = pat[j]

\* the (?i) literal pattern matches text at position i (1-based)
MatchAt(text, pat, i) ==
    \A j \in 1..Len(pat) : Fold(text[i + j - 1]) = Fold(pat[j])

\* pattern.find_iter(&content).count() from position i on: leftmost,
\* non-overlapping matches; the empty pattern matches at every position
RECURSIVE CountFrom(_, _, _)
CountFrom(text, pat, i) ==
    IF Len(pat) = 0 THEN Len(text) - i + 2
    ELSE IF i + Len(pat) - 1 > Len(text) THEN 0
    ELSE IF MatchAt(text, pat, i) THEN 1 + CountFrom(text, pat, i + Len(pat))
    ELSE CountFrom(text, pat, i + 1)

find_iter_count(keyword, content) == CountFrom(Chars(content), Chars(keyword), 1)

\* Regex::new(&format!("(?i){}", regex::escape(k))) fails only when the
\* compiled program exceeds the size limit; "huge" stands for such a keyword
RegexCompiles(k) == k # "huge"

(***************************************************************************)
(* The filesystem.  dirs: the directories that exist; walk: what           *)
(* WalkDir::new(root) yields, in its order, an entry being an error        *)
(* (ok = FALSE) or a path with the extension Path::extension reports       *)
(* (NoExt for None); files: the paths that exist, readable as UTF-8 text   *)
(* or not (a directory, invalid UTF-8, no permission).                     *)
(***************************************************************************)
NoExt == "<none>"

Entry(path, ext) == [ok |-> TRUE, path |-> path, ext |-> ext]
WalkError == [ok |-> FALSE, path |-> "", ext |-> NoExt]
Text(content) == [readable |-> TRUE, content |-> content]
Unreadable == [readable |-> FALSE, content |-> ""]

\* a corpus whose walk order is not the ranking order, with equal scores, a
\* walk error, an unreadable .org entry, and files of other extensions that
\* are full of matches
DiskNotes ==
    [dirs |-> {"kb"},
     walk |-> <<Entry("kb/e.org", "org"), Entry("kb/b.txt", "txt"), WalkError,
                Entry("kb/a.org", "org"), Entry("kb/d.org", "org"),
                Entry("kb/g.ORG", "ORG"), Entry("kb/c.org", "org"),
                Entry("kb/f", NoExt), Entry("kb/h.org", "org")>>,
     files |-> [p \in {"kb/a.org", "kb/b.txt", "kb/c.org", "kb/d.org",
                        "kb/e.org", "kb/f", "kb/g.ORG", "kb/h.org"} |->
                  CASE p = "kb/a.org" -> Text("aAb")
                    [] p = "kb/b.txt" -> Text("aaa")
                    [] p = "kb/c.org" -> Text("abAB")
                    [] p = "kb/d.org" -> Unreadable
                    [] p = "kb/e.org" -> Text("aaa")
                    [] p = "kb/f" -> Text("aa")
                    [] p = "kb/g.ORG" -> Text("bb")
                    [] p = "kb/h.org" -> Text("b")]]

\* the configured root does not exist; a file outside it does
DiskNoRoot ==
    [dirs |-> {},
     walk |-> <<>>,
     files |-> [p \in {"kb/a.org"} |-> Text("ab")]]

FileSystems == {DiskNotes, DiskNoRoot}

(***************************************************************************)
(* search::search_files                                                    *)
(***************************************************************************)
Ok(val) == [ok |-> TRUE, val |-> val]
Err(e) == [ok |-> FALSE, val |-> e]

\* an entry whose extension is org in any letter case
IsOrgFile_AnyCase(entry) == entry.ok /\ entry.ext \in {"org", "ORG"}

\* lines 34-37: the entry is ok and its extension is exactly "org"
IsOrgFile(entry) == entry.ok /\ entry.ext = "org"

\* lines 32-39: the paths of those entries, in walk order
RECURSIVE CollectOrgFiles(_)
CollectOrgFiles(walk) ==
    IF walk = <<>> THEN <<>>
    ELSE IF IsOrgFile(Head(walk))
         THEN <<Head(walk).path>> \o CollectOrgFiles(Tail(walk))
         ELSE CollectOrgFiles(Tail(walk))

\* lines 48-54: the score of one text, summed over the patterns in order
RECURSIVE Score(_, _)
Score(keywords, content) ==
    IF keywords = <<>> THEN 0
    ELSE LET matches == find_iter_count(Head(keywords), content)
         IN  (IF matches > 0 THEN matches ELSE 0) + Score(Tail(keywords), content)

\* fs::read_to_string
read_to_string(disk, path) ==
    IF path \in DOMAIN disk.files /\ disk.files[path].readable
    THEN Ok(disk.files[path].content)
    ELSE Err("io error")

\* a filter that lets files without any match through
Retained_IncludesZero(score) == score >= 0

\* lines 56-60: a file is kept when its score is > 0.0
Retained(score) == score > 0

\* lines 42-65: par_iter().filter_map(..).collect() keeps the input order
RECURSIVE ScoreFiles(_, _, _)
ScoreFiles(disk, keywords, paths) ==
    IF paths = <<>> THEN <<>>
    ELSE LET read == read_to_string(disk, Head(paths))
             rest == ScoreFiles(disk, keywords, Tail(paths))
         IN  IF read.ok /\ Retained(Score(keywords, read.val))
             THEN <<<<Head(paths), Score(keywords, read.val)>>>> \o rest
             ELSE rest

\* the comparator the other way round, a.1.partial_cmp(&b.1): ascending
InsertByRelevance_Ascending(sorted, x) ==
    LET k == Cardinality({i \in 1..Len(sorted) : sorted[i][2] <= x[2]})
    IN  SubSeq(sorted, 1, k) \o <<x>> \o SubSeq(sorted, k + 1, Len(sorted))

\* where the stable sort puts x: behind every entry whose score is >= x's
InsertByRelevance(sorted, x) ==
    LET k == Cardinality({i \in 1..Len(sorted) : sorted[i][2] >= x[2]})
    IN  SubSeq(sorted, 1, k) \o <<x>> \o SubSeq(sorted, k + 1, Len(sorted))

\* line 69: sort_by(|a, b| b.1.partial_cmp(&a.1)...), a stable sort, descending
RECURSIVE sort_by(_)
sort_by(results) ==
    IF results = <<>> THEN <<>>
    ELSE InsertByRelevance(sort_by(SubSeq(results, 1, Len(results) - 1)),
                           results[Len(results)])

\* line 70: Vec::truncate
truncate(results, len) ==
    IF Len(results) > len THEN SubSeq(results, 1, len) ELSE results

\* lines 73-81
SearchResult(pair) == [path |-> pair[1], relevance |-> pair[2]]

\* a search that propagates the read error of a candidate with `?`
search_files_FailsOnUnreadable(config, keywords, disk) ==
    IF config.knowledge.root_path \notin disk.dirs
    THEN Err("Knowledge base path does not exist")
    ELSE IF \E i \in 1..Len(keywords) : ~RegexCompiles(keywords[i])
    THEN Err("Compiled regex exceeds size limit")
    ELSE IF \E i \in 1..Len(CollectOrgFiles(disk.walk)) :
               ~read_to_string(disk, CollectOrgFiles(disk.walk)[i]).ok
    THEN Err("io error")
    ELSE LET files == CollectOrgFiles(disk.walk)
             results == ScoreFiles(disk, keywords, files)
             sorted_results == truncate(sort_by(results), config.knowledge.max_files)
         IN  Ok([i \in 1..Len(sorted_results) |-> SearchResult(sorted_results[i])])

\* the search without the root_path.exists() check: a missing root walks to nothing
search_files_NoRootCheck(config, keywords, disk) ==
    IF \E i \in 1..Len(keywords) : ~RegexCompiles(keywords[i])
    THEN Err("Compiled regex exceeds size limit")
    ELSE LET files == CollectOrgFiles(disk.walk)
             results == ScoreFiles(disk, keywords, files)
             sorted_results == truncate(sort_by(results), config.knowledge.max_files)
         IN  Ok([i \in 1..Len(sorted_results) |-> SearchResult(sorted_results[i])])

search_files(config, keywords, disk) ==
    IF config.knowledge.root_path \notin disk.dirs
    THEN Err("Knowledge base path does not exist")
    ELSE IF \E i \in 1..Len(keywords) : ~RegexCompiles(keywords[i])
    THEN Err("Compiled regex exceeds size limit")
    ELSE LET files == CollectOrgFiles(disk.walk)
             results == ScoreFiles(disk, keywords, files)
             sorted_results == truncate(sort_by(results), config.knowledge.max_files)
         IN  Ok([i \in 1..Len(sorted_results) |-> SearchResult(sorted_results[i])])

(***************************************************************************)
(* content::get_contents.  The HashMap is a set of <<path, text>> pairs    *)
(* with one pair per key.                                                  *)
(***************************************************************************)
\* a map that is created anew for every path
HashMapInsert_DropsOthers(map, key, value) == {<<key, value>>}

HashMapInsert(map, key, value) ==
    {e \in map : e[1] # key} \cup {<<key, value>>}

RECURSIVE CollectContents(_, _, _)
CollectContents(disk, file_paths, contents) ==
    IF file_paths = <<>> THEN contents
    ELSE LET path == Head(file_paths)
             read == read_to_string(disk, path)
             entry == IF path \in DOMAIN disk.files
                      THEN IF read.ok THEN read.val
                           ELSE "Error reading file: io error"
                      ELSE "File not found"
         IN  CollectContents(disk, Tail(file_paths),
                             HashMapInsert(contents, path, entry))

\* a collaborator that gives up on the first path that does not exist
get_contents_FailsOnMissing(file_paths, disk) ==
    IF \E i \in 1..Len(file_paths) : file_paths[i] \notin DOMAIN disk.files
    THEN Err("File not found")
    ELSE Ok([json |-> "object", entries |-> CollectContents(disk, file_paths, {})])

get_contents(file_paths, disk) ==
    Ok([json |-> "object", entries |-> CollectContents(disk, file_paths, {})])

(***************************************************************************)
(* BrainServer: the tool catalog and the dispatcher.                       *)
(***************************************************************************)
Tool(name, description, property) ==
    [name |-> name,
     description |-> description,
     input_schema |-> [type |-> "object",
                       properties |-> [name |-> property, type |-> "array",
                                       items |-> "string"],
                       required |-> <<property>>]]

\* a catalog that registers search_files only
register_tools_OnlySearch(tools) ==
    tools \o <<Tool("search_files",
                    "Search for relevant files based on keywords", "keywords")>>

\* register_tools pushes the two descriptors onto self.tools
register_tools(tools) ==
    tools \o <<Tool("search_files",
                    "Search for relevant files based on keywords", "keywords"),
               Tool("get_contents",
                    "Get contents of specified files", "file_paths")>>

\* BrainServer::new, given the configuration load_config returned
BrainServer_new(config) == [tools |-> register_tools(<<>>), config |-> config]

McpRequest(jsonrpc, id, method, params) ==
    [jsonrpc |-> jsonrpc, id |-> id, method |-> method, params |-> params]

McpResponse(id, result) == [jsonrpc |-> "2.0", id |-> id, result |-> result]

\* an error envelope that does not echo the id
McpError_NullId(id, code, message) ==
    [jsonrpc |-> "2.0", id |-> Null, error |-> [code |-> code, message |-> message]]

\* message is the sequence of fragments format! concatenates
McpError(id, code, message) ==
    [jsonrpc |-> "2.0", id |-> id, error |-> [code |-> code, message |-> message]]

\* what handle_request hands back: the Result, and the domain operations it
\* invoked on the way (each one reads the filesystem)
Handled(reply, invoked) == [reply |-> reply, invoked |-> invoked]

TextContent(text) == [content |-> <<[type |-> "text", text |-> text]>>]

\* the "list_tools" arm
ListTools(server, request) ==
    Handled(Ok(McpResponse(request.id,
                 [tools |-> [i \in 1..Len(server.tools) |->
                               [name |-> server.tools[i].name,
                                description |-> server.tools[i].description,
                                input_schema |-> server.tools[i].input_schema]]])),
            <<>>)

\* a "search_files" arm that rejects an array with an entry that is not a string
CallSearchFiles_RejectsNonStrings(server, request, disk) ==
    LET entries == Get(Get(request.params, "arguments"), "keywords").v
        keywords == FilterStrings(entries)
        found == search_files(server.config, keywords, disk)
    IN  IF Len(keywords) # Len(entries)
        THEN Handled(Err(McpError(request.id, -32602, <<"Invalid parameters">>)), <<>>)
        ELSE Handled(IF found.ok
                     THEN Ok(McpResponse(request.id,
                               TextContent([json |-> "array", items |-> found.val])))
                     ELSE Err(McpError(request.id, -32603,
                                       <<"Internal error: ", found.val>>)),
                     <<[op |-> "search_files", keywords |-> keywords]>>)

\* the "search_files" arm once keywords is an array
CallSearchFiles(server, request, disk) ==
    LET keywords == FilterStrings(Get(Get(request.params, "arguments"), "keywords").v)
        found == search_files(server.config, keywords, disk)
    IN  Handled(IF found.ok
                THEN Ok(McpResponse(request.id,
                          TextContent([json |-> "array", items |-> found.val])))
                ELSE Err(McpError(request.id, -32603,
                                  <<"Internal error: ", found.val>>)),
                <<[op |-> "search_files", keywords |-> keywords]>>)

\* the "get_contents" arm once file_paths is an array
CallGetContents(server, request, disk) ==
    LET file_paths == FilterStrings(Get(Get(request.params, "arguments"), "file_paths").v)
        got == get_contents(file_paths, disk)
    IN  Handled(IF got.ok
                THEN Ok(McpResponse(request.id, TextContent(got.val)))
                ELSE Err(McpError(request.id, -32603,
                                  <<"Internal error: ", got.val>>)),
                <<[op |-> "get_contents", file_paths |-> file_paths]>>)

\* the fall-through of the "call_tool" arm
InvalidParams(request) ==
    Handled(Err(McpError(request.id, -32602, <<"Invalid parameters">>)), <<>>)

\* the default arm
MethodNotFound(request) ==
    Handled(Err(McpError(request.id, -32601, <<"Method not found">>)), <<>>)

\* a "call_tool" arm that runs the search for any tool name but get_contents
CallTool_DefaultsToSearch(server, request, disk) ==
    LET tool_name == Get(request.params, "name")
        args == Get(request.params, "arguments")
    IN  IF IsStr(tool_name) /\ tool_name.v = "get_contents"
           /\ args # Absent /\ IsArray(Get(args, "file_paths"))
        THEN CallGetContents(server, request, disk)
        ELSE IF args # Absent /\ IsArray(Get(args, "keywords"))
        THEN CallSearchFiles(server, request, disk)
        ELSE InvalidParams(request)

\* the "call_tool" arm
CallTool(server, request, disk) ==
    LET tool_name == Get(request.params, "name")
        args == Get(request.params, "arguments")
    IN  IF IsStr(tool_name) /\ tool_name.v = "search_files"
           /\ args # Absent /\ IsArray(Get(args, "keywords"))
        THEN CallSearchFiles(server, request, disk)
        ELSE IF IsStr(tool_name) /\ tool_name.v = "get_contents"
                /\ args # Absent /\ IsArray(Get(args, "file_paths"))
        THEN CallGetContents(server, request, disk)
        ELSE InvalidParams(request)

\* a dispatcher whose default arm is the "call_tool" arm
handle_request_DefaultsToCallTool(server, request, disk) ==
    IF request.method = "list_tools" THEN ListTools(server, request)
    ELSE CallTool(server, request, disk)

\* a dispatcher that rejects a request whose tag is not "2.0" (Invalid Request)
handle_request_ChecksVersion(server, request, disk) ==
    IF request.jsonrpc # "2.0"
    THEN Handled(Err(McpError(request.id, -32600, <<"Invalid Request">>)), <<>>)
    ELSE IF request.method = "list_tools" THEN ListTools(server, request)
    ELSE IF request.method = "call_tool" THEN CallTool(server, request, disk)
    ELSE MethodNotFound(request)

handle_request(server, request, disk) ==
    IF request.method = "list_tools" THEN ListTools(server, request)
    ELSE IF request.method = "call_tool" THEN CallTool(server, request, disk)
    ELSE MethodNotFound(request)

(***************************************************************************)
(* Input lines and their decoding.                                         *)
(***************************************************************************)
\* a line that is not JSON
NotJson == [t |-> "text"]
\* a line lines() cannot deliver: invalid UTF-8, or an I/O error
BadLine == [t |-> "unreadable"]

Envelope(jsonrpc, id, method, params) ==
    Obj([jsonrpc |-> jsonrpc, id |-> id, method |-> method, params |-> params])
Params(name, arguments) == Obj([name |-> name, arguments |-> arguments])
Arguments(keywords, file_paths) ==
    Obj([keywords |-> keywords, file_paths |-> file_paths])
EmptyObject == Params(Absent, Absent)

\* a request struct whose params field is optional
Decodable_ParamsOptional(line) ==
    /\ line.t = "obj"
    /\ IsStr(Get(line, "jsonrpc"))
    /\ Get(line, "id") # Absent
    /\ IsStr(Get(line, "method"))

\* serde_json::from_str::<McpRequest>: every field must be present, jsonrpc
\* and method must be strings; id and params are any Value
Decodable(line) ==
    /\ line.t = "obj"
    /\ IsStr(Get(line, "jsonrpc"))
    /\ Get(line, "id") # Absent
    /\ IsStr(Get(line, "method"))
    /\ Get(line, "params") # Absent

from_str(line) ==
    IF Decodable(line)
    THEN Ok(McpRequest(Get(line, "jsonrpc").v, Get(line, "id"),
                       Get(line, "method").v, Get(line, "params")))
    ELSE Err("invalid envelope")

\* the error object of lines 558-565
ParseErrorLine(e) ==
    [jsonrpc |-> "2.0", id |-> Null,
     error |-> [code |-> -32700, message |-> <<"Parse error: ", e>>]]

\* serde_json::to_string of the Ok or the Err value: the struct's fields
to_string(reply) == reply.val

\* the request lines the input stream may deliver
SearchCall(id, keywords) ==
    Envelope(Str("2.0"), id, Str("call_tool"),
             Params(Str("search_files"), Arguments(keywords, Absent)))
ContentsCall(id, file_paths) ==
    Envelope(Str("2.0"), id, Str("call_tool"),
             Params(Str("get_contents"), Arguments(Absent, file_paths)))

ValidSearch == Params(Str("search_files"), Arguments(Arr(<<Str("a")>>), Absent))

UndecodableLines ==
    {NotJson,
     Envelope(Absent, Num(1), Str("list_tools"), EmptyObject),
     Envelope(Str("2.0"), Absent, Str("list_tools"), EmptyObject),
     Envelope(Str("2.0"), Num(1), Absent, ValidSearch),
     Envelope(Str("2.0"), Num(1), Str("call_tool"), Absent)}

ListToolsLines ==
    {Envelope(Str("2.0"), Num(1), Str("list_tools"), EmptyObject),
     Envelope(Str("1.0"), Str("x"), Str("list_tools"), Num(7))}

OtherMethodLines ==
    {Envelope(Str("2.0"), Num(4), Str("invalid_method"), ValidSearch)}

SearchLines ==
    {SearchCall(Null, Arr(<<Str("a"), Num(5), Str("A")>>)),
     SearchCall(Num(3), Arr(<<Num(5), Null>>)),
     SearchCall(Str("x"), Arr(<<Str("huge")>>)),
     SearchCall(Num(5), Arr(<<Str(""), Str("ab")>>)),
     SearchCall(Num(6), Arr(<<Str("aa")>>)),
     SearchCall(Num(7), Arr(<<Str("bb")>>)),
     Envelope(Str("1.0"), Num(6), Str("call_tool"),
              Params(Str("search_files"), Arguments(Arr(<<Str("aa")>>), Absent)))}

ContentsLines ==
    {ContentsCall(Num(8), Arr(<<Str("kb/a.org"), Str("missing.txt"), Str("kb/d.org")>>)),
     ContentsCall(Str("y"), Arr(<<Str("kb/c.org"), Num(5), Str("kb/c.org")>>))}

BothArguments == Arguments(Arr(<<Str("a")>>), Arr(<<Str("kb/a.org")>>))

InvalidCallLines ==
    {Envelope(Str("2.0"), Num(9), Str("call_tool"), Params(Absent, BothArguments)),
     Envelope(Str("2.0"), Str("z"), Str("call_tool"), Params(Num(1), BothArguments)),
     Envelope(Str("2.0"), Num(10), Str("call_tool"),
              Params(Str("delete_files"), BothArguments)),
     Envelope(Str("2.0"), Num(11), Str("call_tool"), Params(Str("search_files"), Absent)),
     Envelope(Str("2.0"), Num(12), Str("call_tool"),
              Params(Str("search_files"),
                     Arguments(Absent, Arr(<<Str("kb/a.org")>>)))),
     Envelope(Str("2.0"), Num(13), Str("call_tool"),
              Params(Str("get_contents"), Arguments(Arr(<<Str("a")>>), Absent))),
     SearchCall(Null, Str("a")),
     ContentsCall(Num(14), Str("kb/a.org"))}

Lines ==
    UndecodableLines \cup ListToolsLines \cup OtherMethodLines \cup SearchLines
        \cup ContentsLines \cup InvalidCallLines

(***************************************************************************)
(* The server process: main of mcp/server/src/main.rs.                     *)
(***************************************************************************)
VARIABLES
    server,       \* the BrainServer: tools and config
    disk,         \* the filesystem
    pc,           \* where main is: "read", "decode", "handle", "write", "done"
    lines_read,   \* the lines stdin.lines() has yielded so far
    request,      \* the decoded McpRequest of the current iteration
    response,     \* the serialized response of the current iteration
    stdout,       \* the lines written to standard output
    dispatched,   \* one record per handle_request call: its line, what it invoked
    main_result,  \* what main returned: "Ok", "Err(stdin)", "Err(stdout)"
    par,          \* the parallel scoring of one search_files call
    cli           \* the one-shot pipeline of the command-line tool

vars == <<server, disk, pc, lines_read, request, response, stdout, dispatched,
          main_result, par, cli>>

\* no search is being run step by step; the command-line tool is not running
ParIdle == [phase |-> "idle"]
CliIdle == [pc |-> "idle"]

Config(max_files) ==
    [knowledge |-> [root_path |-> "kb", max_files |-> max_files],
     mcp |-> [server_name |-> "brain-files"]]

NoRequest == McpRequest("", Null, "", Null)
NoResponse == [jsonrpc |-> "", id |-> Null]

\* lines 538-549: the server is built from the loaded configuration
Init ==
    /\ \E max_files \in 0..MaxFilesBound : server = BrainServer_new(Config(max_files))
    /\ disk \in FileSystems
    /\ pc = "read"
    /\ lines_read = <<>>
    /\ request = NoRequest
    /\ response = NoResponse
    /\ stdout = <<>>
    /\ dispatched = <<>>
    /\ main_result = "running"
    /\ par = ParIdle
    /\ cli = CliIdle

\* line 551: stdin.lines() yields Some(Ok(line))
ReadLine ==
    /\ pc = "read"
    /\ Len(lines_read) < MaxLines
    /\ \E line \in Lines : lines_read' = Append(lines_read, line)
    /\ pc' = "decode"
    /\ UNCHANGED <<server, disk, request, response, stdout, dispatched, main_result,
                 par, cli>>

\* lines 551-552: stdin.lines() yields Some(Err(_)) and `line?` returns it
ReadFails ==
    /\ pc = "read"
    /\ Len(lines_read) < MaxLines
    /\ lines_read' = Append(lines_read, BadLine)
    /\ pc' = "done"
    /\ main_result' = "Err(stdin)"
    /\ UNCHANGED <<server, disk, request, response, stdout, dispatched,
                 par, cli>>

\* lines 551, 583: stdin.lines() yields None, main returns Ok(())
ReadEof ==
    /\ pc = "read"
    /\ pc' = "done"
    /\ main_result' = "Ok"
    /\ UNCHANGED <<server, disk, lines_read, request, response, stdout, dispatched,
                 par, cli>>

\* a write that is never flushed: the line stays in the buffer
WriteLine_NoFlush(text) ==
    /\ stdout' = stdout
    /\ pc' = "read"
    /\ UNCHANGED main_result

\* writeln! and flush of one line: it reaches stdout, or `?` returns the error
\* (the line then is on stdout or not)
WriteLine(text) ==
    \/ /\ stdout' = Append(stdout, text)
       /\ pc' = "read"
       /\ UNCHANGED main_result
    \/ /\ stdout' \in {stdout, Append(stdout, text)}
       /\ pc' = "done"
       /\ main_result' = "Err(stdout)"

\* a loop that skips a line it cannot decode and writes nothing for it
DecodeFails_SkipsLine ==
    /\ pc = "decode"
    /\ ~from_str(lines_read[Len(lines_read)]).ok
    /\ pc' = "read"
    /\ UNCHANGED <<server, disk, lines_read, request, response, stdout, dispatched,
                 main_result, par, cli>>

\* lines 555-570: the line does not decode; the error object is written
DecodeFails ==
    /\ pc = "decode"
    /\ LET decoded == from_str(lines_read[Len(lines_read)])
       IN  /\ ~decoded.ok
           /\ WriteLine(ParseErrorLine(decoded.val))
    /\ UNCHANGED <<server, disk, lines_read, request, response, dispatched,
                 par, cli>>

\* lines 555-556: the line decodes
DecodeOk ==
    /\ pc = "decode"
    /\ LET decoded == from_str(lines_read[Len(lines_read)])
       IN  /\ decoded.ok
           /\ request' = decoded.val
    /\ pc' = "handle"
    /\ UNCHANGED <<server, disk, lines_read, response, stdout, dispatched, main_result,
                 par, cli>>

\* a dispatcher that registers the tools again on every request
HandleRequest_RegistersAgain ==
    /\ pc = "handle"
    /\ LET handled == handle_request(server, request, disk)
       IN  /\ response' = to_string(handled.reply)
           /\ dispatched' = Append(dispatched, [line |-> Len(lines_read),
                                                invoked |-> handled.invoked])
    /\ server' = [server EXCEPT !.tools = register_tools(@)]
    /\ pc' = "write"
    /\ UNCHANGED <<disk, lines_read, request, stdout, main_result, par, cli>>

\* lines 573-576: handle_request, then serialization of its Ok or Err
HandleRequest ==
    /\ pc = "handle"
    /\ LET handled == handle_request(server, request, disk)
       IN  /\ response' = to_string(handled.reply)
           /\ dispatched' = Append(dispatched, [line |-> Len(lines_read),
                                                invoked |-> handled.invoked])
    /\ pc' = "write"
    /\ UNCHANGED <<server, disk, lines_read, request, stdout, main_result,
                 par, cli>>

\* lines 578-581: the response is written and flushed; the iteration ends
WriteResponse ==
    /\ pc = "write"
    /\ WriteLine(response)
    /\ request' = NoRequest
    /\ response' = NoResponse
    /\ UNCHANGED <<server, disk, lines_read, dispatched,
                 par, cli>>

Next ==
    \/ ReadLine
    \/ ReadFails
    \/ ReadEof
    \/ DecodeFails
    \/ DecodeOk
    \/ HandleRequest
    \/ WriteResponse

Spec == Init /\ [][Next]_vars

(***************************************************************************)
(* Vocabulary of the properties.                                           *)
(***************************************************************************)
EnvelopeFields == {"jsonrpc", "id", "method", "params"}
RegisteredTools == {"search_files", "get_contents"}

CurrentLine == lines_read[Len(lines_read)]
LastCall == dispatched[Len(dispatched)]

\* the line is a line of text that is not an envelope: not JSON, or a field missing
LacksEnvelope(line) ==
    line # BadLine /\ \E f \in EnvelopeFields : Get(line, f) = Absent

IsErrorLine(out, code) == "error" \in DOMAIN out /\ out.error.code = code
IsResultLine(out) == "result" \in DOMAIN out

\* what the dispatcher answers to the k-th line read
ReplyTo(k) == to_string(handle_request(server, from_str(lines_read[k]).val, disk).reply)

\* the single text payload of a call_tool result
Payload(out) == out.result.content[1].text

(***************************************************************************)
(* C1: the responses on stdout are, in order, the answers to the lines     *)
(* read: a line is read only when every earlier line has its one response  *)
(* written (at most one line is ever unanswered), and the k-th line        *)
(* written is the dispatcher's answer to the k-th decoded request.         *)
(***************************************************************************)
C1_ResponsesInRequestOrder ==
    /\ Len(stdout) <= Len(lines_read)
    /\ Len(lines_read) <= Len(stdout) + 1
    /\ pc = "read" => Len(stdout) = Len(lines_read)
    /\ \A k \in 1..Len(stdout) :
         ~LacksEnvelope(lines_read[k]) =>
            /\ stdout[k] = ReplyTo(k)
            /\ \E i \in 1..Len(dispatched) :
                 /\ dispatched[i].line = k
                 /\ \A j \in 1..Len(dispatched) : dispatched[j].line = k => j = i

\* two different requests were answered and the loop is back at reading
C1_Witness ==
    /\ pc = "read"
    /\ Len(stdout) = 2
    /\ ~LacksEnvelope(lines_read[1]) /\ ~LacksEnvelope(lines_read[2])
    /\ stdout[1] # stdout[2]
    /\ IsResultLine(stdout[1]) /\ IsErrorLine(stdout[2], -32602)

(***************************************************************************)
(* C2: a line that is not JSON or lacks an envelope field gets exactly one *)
(* response, the error -32700 with id null, without handle_request being   *)
(* called for it; once that response is written the loop is reading        *)
(* again, and a well-formed line that follows gets its own answer.         *)
(***************************************************************************)
C2_MalformedLineGetsParseError ==
    \A k \in 1..Len(lines_read) :
       LacksEnvelope(lines_read[k]) =>
          /\ \A i \in 1..Len(dispatched) : dispatched[i].line # k
          /\ k <= Len(stdout) =>
                /\ IsErrorLine(stdout[k], -32700)
                /\ stdout[k].id = Null
                /\ stdout[k].jsonrpc = "2.0"
          /\ (k < Len(lines_read) \/ pc = "read") => k <= Len(stdout)
          /\ (k = Len(lines_read) /\ k <= Len(stdout) /\ main_result = "running")
                => pc = "read"
          /\ (k < Len(stdout) /\ ~LacksEnvelope(lines_read[k + 1]))
                => stdout[k + 1] = ReplyTo(k + 1)

\* a malformed line was answered, then a list_tools request was
C2_Witness ==
    /\ Len(stdout) = 2
    /\ LacksEnvelope(lines_read[1])
    /\ lines_read[1] # NotJson
    /\ IsErrorLine(stdout[1], -32700)
    /\ IsResultLine(stdout[2])

(***************************************************************************)
(* C3: the process ends only because the input stream closed: whenever     *)
(* main has returned, it returned Ok(()) from the end of the stream.       *)
(***************************************************************************)
C3_EndsOnlyAtEndOfInput ==
    pc = "done" => main_result = "Ok"

(***************************************************************************)
(* C4 as stated: every response of handle_request carries the id of the    *)
(* request, and a response with a null id is a ParseError response.        *)
(***************************************************************************)
C4_OnlyParseErrorHasNullId ==
    \A k \in 1..Len(stdout) :
       /\ ~LacksEnvelope(lines_read[k]) => stdout[k].id = Get(lines_read[k], "id")
       /\ stdout[k].id = Null => IsErrorLine(stdout[k], -32700)

(***************************************************************************)
(* C4 as amended: every response of handle_request (success, -32601,       *)
(* -32602, -32603) carries the id of the request's line verbatim, the      *)
(* ParseError response carries a null id, and another response carries a   *)
(* null id only when the request's own id is null.                         *)
(***************************************************************************)
C4_IdEchoed ==
    /\ pc = "write" => response.id = Get(CurrentLine, "id")
    /\ \A k \in 1..Len(stdout) :
         /\ ~LacksEnvelope(lines_read[k]) =>
               /\ stdout[k].id = Get(lines_read[k], "id")
               /\ ~IsErrorLine(stdout[k], -32700)
         /\ LacksEnvelope(lines_read[k]) => stdout[k].id = Null
         /\ (stdout[k].id = Null /\ ~IsErrorLine(stdout[k], -32700))
               => Get(lines_read[k], "id") = Null

\* an error response and a success response echo a string id and a null id
C4_Witness ==
    /\ Len(stdout) = 2
    /\ IsErrorLine(stdout[1], -32602) /\ stdout[1].id = Str("z")
    /\ IsResultLine(stdout[2]) /\ stdout[2].id = Null

(***************************************************************************)
(* C5: a list_tools request succeeds whatever its params are, and its      *)
(* result lists exactly search_files and get_contents, in that order, each *)
(* with a name, a non-empty description and an input schema.               *)
(***************************************************************************)
C5_ListToolsReturnsCatalog ==
    (pc = "write" /\ Get(CurrentLine, "method") = Str("list_tools")) =>
       /\ IsResultLine(response)
       /\ DOMAIN response.result = {"tools"}
       /\ Len(response.result.tools) = 2
       /\ response.result.tools[1].name = "search_files"
       /\ response.result.tools[2].name = "get_contents"
       /\ \A i \in 1..2 :
            /\ DOMAIN response.result.tools[i] = {"name", "description", "input_schema"}
            /\ response.result.tools[i].description # ""
            /\ response.result.tools[i].input_schema.type = "object"
       /\ LastCall.invoked = <<>>

\* list_tools with params that are not an object is about to be answered
C5_Witness ==
    /\ pc = "write"
    /\ request.method = "list_tools"
    /\ request.params = Num(7)
    /\ IsResultLine(response)

(***************************************************************************)
(* C6: a call_tool request whose params.name is absent, not a string or    *)
(* not a registered tool, or whose required argument (keywords for         *)
(* search_files, file_paths for get_contents) is absent or not an array,   *)
(* is answered with error -32602 "Invalid parameters", and neither         *)
(* search_files nor get_contents is invoked.                               *)
(***************************************************************************)
RequiredArgument(name) == IF name = "search_files" THEN "keywords" ELSE "file_paths"

\* the params of the line name a registered tool and carry its array argument
WellFormedCall(line) ==
    LET name == Get(Get(line, "params"), "name")
    IN  /\ IsStr(name)
        /\ name.v \in RegisteredTools
        /\ IsArray(Get(Get(Get(line, "params"), "arguments"),
                       RequiredArgument(name.v)))

C6_InvalidParamsBeforeDomainLogic ==
    (/\ pc = "write"
     /\ Get(CurrentLine, "method") = Str("call_tool")
     /\ ~WellFormedCall(CurrentLine)) =>
        /\ IsErrorLine(response, -32602)
        /\ response.error.message = <<"Invalid parameters">>
        /\ LastCall.line = Len(lines_read)
        /\ LastCall.invoked = <<>>

\* an unregistered tool name with arguments that would suit either tool
C6_Witness ==
    /\ pc = "write"
    /\ request.method = "call_tool"
    /\ Get(request.params, "name") = Str("delete_files")
    /\ IsArray(Get(Get(request.params, "arguments"), "keywords"))
    /\ IsErrorLine(response, -32602)

(***************************************************************************)
(* C7: a decoded request whose method is neither list_tools nor call_tool  *)
(* is answered with error -32601 "Method not found" whatever its params,   *)
(* and no domain operation is invoked.                                     *)
(***************************************************************************)
C7_UnknownMethodNotFound ==
    (/\ pc = "write"
     /\ Get(CurrentLine, "method") \notin {Str("list_tools"), Str("call_tool")}) =>
        /\ IsErrorLine(response, -32601)
        /\ response.error.message = <<"Method not found">>
        /\ LastCall.line = Len(lines_read)
        /\ LastCall.invoked = <<>>

\* an unknown method whose params would be a valid search_files call
C7_Witness ==
    /\ pc = "write"
    /\ request.method = "invalid_method"
    /\ WellFormedCall(CurrentLine)
    /\ IsErrorLine(response, -32601)

(***************************************************************************)
(* C8: error -32603 answers only a call_tool request whose tool name and   *)
(* required argument validated and whose domain operation was invoked and  *)
(* failed; and a search_files call with keywords that compile, against a   *)
(* root that does not exist, is answered with -32603 and the request's id. *)
(***************************************************************************)
\* the string entries of the keywords array of the line
KeywordsOf(line) ==
    FilterStrings(Get(Get(Get(line, "params"), "arguments"), "keywords").v)

IsSearchCall(line) ==
    /\ Get(line, "method") = Str("call_tool")
    /\ WellFormedCall(line)
    /\ Get(Get(line, "params"), "name") = Str("search_files")

IsContentsCall(line) ==
    /\ Get(line, "method") = Str("call_tool")
    /\ WellFormedCall(line)
    /\ Get(Get(line, "params"), "name") = Str("get_contents")

C8_InternalErrorOnlyAfterValidation ==
    pc = "write" =>
       /\ IsErrorLine(response, -32603) =>
             /\ IsSearchCall(CurrentLine)
             /\ Len(LastCall.invoked) = 1
             /\ LastCall.invoked[1].op = "search_files"
             /\ \/ server.config.knowledge.root_path \notin disk.dirs
                \/ \E i \in 1..Len(KeywordsOf(CurrentLine)) :
                      KeywordsOf(CurrentLine)[i] = "huge"
       /\ (/\ IsSearchCall(CurrentLine)
           /\ server.config.knowledge.root_path \notin disk.dirs) =>
             /\ IsErrorLine(response, -32603)
             /\ response.error.message[1] = "Internal error: "
             /\ response.id = Get(CurrentLine, "id")

\* a search with valid keywords met a root that does not exist
C8_Witness ==
    /\ pc = "write"
    /\ disk = DiskNoRoot
    /\ IsSearchCall(CurrentLine)
    /\ KeywordsOf(CurrentLine) = <<"aa">>
    /\ IsErrorLine(response, -32603)
    /\ response.id = Num(6)

(***************************************************************************)
(* C9: a get_contents call is answered with a success whose single text    *)
(* payload holds, for every requested path, the file's text, or "File not  *)
(* found" when the path does not exist, or an "Error reading file" message *)
(* when it cannot be read; it is never answered with -32603.               *)
(***************************************************************************)
PathsOf(line) ==
    FilterStrings(Get(Get(Get(line, "params"), "arguments"), "file_paths").v)

C9_PerPathFailuresEmbedded ==
    (pc = "write" /\ IsContentsCall(CurrentLine)) =>
       /\ IsResultLine(response)
       /\ Len(response.result.content) = 1
       /\ response.result.content[1].type = "text"
       /\ \A i \in 1..Len(PathsOf(CurrentLine)) :
            LET path == PathsOf(CurrentLine)[i]
            IN  <<path,
                  IF path \notin DOMAIN disk.files THEN "File not found"
                  ELSE IF ~disk.files[path].readable
                       THEN "Error reading file: io error"
                       ELSE disk.files[path].content>>
                   \in Payload(response).entries

\* one call asked for a readable file, a missing one and an unreadable one
C9_Witness ==
    /\ pc = "write"
    /\ IsContentsCall(CurrentLine)
    /\ IsResultLine(response)
    /\ Payload(response).entries =
          {<<"kb/a.org", "aAb">>, <<"missing.txt", "File not found">>,
           <<"kb/d.org", "Error reading file: io error">>}

(***************************************************************************)
(* C10: the list a search returns has at most max_files entries, its       *)
(* relevance values never increase from one entry to the next, and no      *)
(* readable .org file left out of it scores strictly higher than an entry  *)
(* of it.                                                                  *)
(***************************************************************************)
\* the readable entries of the walk whose extension is org
Candidates ==
    {disk.walk[i].path : i \in {j \in 1..Len(disk.walk) :
        /\ disk.walk[j].ok
        /\ disk.walk[j].ext = "org"
        /\ disk.files[disk.walk[j].path].readable}}

ScoreOf(path, keywords) == Score(keywords, disk.files[path].content)

C10_BoundedAndRanked ==
    (pc = "write" /\ IsSearchCall(CurrentLine) /\ IsResultLine(response)) =>
       LET items == Payload(response).items
           returned == {items[i].path : i \in 1..Len(items)}
       IN  /\ Len(items) <= server.config.knowledge.max_files
           /\ \A i \in 1..Len(items) - 1 : items[i].relevance >= items[i + 1].relevance
           /\ \A p \in Candidates \ returned : \A i \in 1..Len(items) :
                 ScoreOf(p, KeywordsOf(CurrentLine)) <= items[i].relevance

\* the ranking reordered the walk and the truncation dropped a scoring file
C10_Witness ==
    /\ pc = "write"
    /\ IsSearchCall(CurrentLine)
    /\ IsResultLine(response)
    /\ server.config.knowledge.max_files = 2
    /\ Len(Payload(response).items) = 2
    /\ Payload(response).items[1].relevance > Payload(response).items[2].relevance
    /\ Payload(response).items[1].path # "kb/e.org"
    /\ \E p \in Candidates : /\ ScoreOf(p, KeywordsOf(CurrentLine)) > 0
                             /\ \A i \in 1..2 : Payload(response).items[i].path # p

\* a configuration with max_files = 0 returns the empty list
C10_WitnessZero ==
    /\ pc = "write"
    /\ IsSearchCall(CurrentLine)
    /\ server.config.knowledge.max_files = 0
    /\ \E p \in Candidates : ScoreOf(p, KeywordsOf(CurrentLine)) > 0
    /\ Payload(response).items = <<>>

(***************************************************************************)
(* C11: the relevance of every returned file is the sum, over the          *)
(* positions of the keyword list, of the number of non-overlapping         *)
(* case-insensitive literal occurrences of the keyword in the file's text; *)
(* it is > 0; and a readable .org file with a positive sum is missing from *)
(* the list only when the list is full (max_files entries).                *)
(***************************************************************************)
SameLetter(c, d) == c = d \/ {c, d} = {"a", "A"} \/ {c, d} = {"b", "B"}

\* word occurs in text at position i, letter case ignored
OccursAt(text, word, i) ==
    /\ i + Len(word) - 1 <= Len(text)
    /\ \A j \in 1..Len(word) : SameLetter(text[i + j - 1], word[j])

\* the largest number of occurrences of word in text that do not overlap
Occurrences(text, word) ==
    LET positions == {i \in 1..Len(text) + 1 : OccursAt(text, word, i)}
        apart(S) == \A q \in S : \A r \in S :
                       q < r => r - q >= Len(word)
        sizes == {Cardinality(S) : S \in {T \in SUBSET positions : apart(T)}}
    IN  CHOOSE n \in sizes : \A m \in sizes : m <= n

RECURSIVE SumOfOccurrences(_, _)
SumOfOccurrences(keywords, content) ==
    IF keywords = <<>> THEN 0
    ELSE Occurrences(Chars(content), Chars(keywords[1]))
            + SumOfOccurrences(Tail(keywords), content)

Matches(path, keywords) == SumOfOccurrences(keywords, disk.files[path].content)

C11_RelevanceIsMatchCount ==
    (pc = "write" /\ IsSearchCall(CurrentLine) /\ IsResultLine(response)) =>
       LET items == Payload(response).items
           keywords == KeywordsOf(CurrentLine)
       IN  /\ \A i \in 1..Len(items) :
                /\ items[i].relevance = Matches(items[i].path, keywords)
                /\ items[i].relevance > 0
           /\ \A p \in Candidates :
                (/\ Matches(p, keywords) > 0
                 /\ \A i \in 1..Len(items) : items[i].path # p)
                   => Len(items) = server.config.knowledge.max_files

\* keywords a and A: both count, in either letter case
C11_Witness ==
    /\ pc = "write"
    /\ IsSearchCall(CurrentLine)
    /\ KeywordsOf(CurrentLine) = <<"a", "A">>
    /\ IsResultLine(response)
    /\ Len(Payload(response).items) = 2
    /\ Payload(response).items[1] = [path |-> "kb/e.org", relevance |-> 6]
    /\ Payload(response).items[2] = [path |-> "kb/a.org", relevance |-> 4]

(***************************************************************************)
(* C12: when no keyword occurs in any readable .org file of an existing    *)
(* root (the empty keyword list included), the search succeeds with the    *)
(* empty list.                                                             *)
(***************************************************************************)
C12_NoMatchesEmptyResult ==
    (/\ pc = "write"
     /\ IsSearchCall(CurrentLine)
     /\ server.config.knowledge.root_path \in disk.dirs
     /\ \A i \in 1..Len(KeywordsOf(CurrentLine)) : KeywordsOf(CurrentLine)[i] # "huge"
     /\ \A p \in Candidates : Matches(p, KeywordsOf(CurrentLine)) = 0) =>
        /\ IsResultLine(response)
        /\ Payload(response).items = <<>>

\* a keyword that occurs in no eligible file, with room for results
C12_Witness ==
    /\ pc = "write"
    /\ IsSearchCall(CurrentLine)
    /\ KeywordsOf(CurrentLine) = <<"bb">>
    /\ disk = DiskNotes
    /\ server.config.knowledge.max_files > 0
    /\ IsResultLine(response)
    /\ Payload(response).items = <<>>

\* the empty keyword list
C12_WitnessEmptySet ==
    /\ pc = "write"
    /\ IsSearchCall(CurrentLine)
    /\ KeywordsOf(CurrentLine) = <<>>
    /\ disk = DiskNotes
    /\ server.config.knowledge.max_files > 0
    /\ Payload(response).items = <<>>

(***************************************************************************)
(* C13: every path of a search result is an entry of the walk of the root  *)
(* whose extension is exactly org; an entry with another extension, or     *)
(* none, is never returned.                                                *)
(***************************************************************************)
C13_OnlyOrgFiles ==
    (pc = "write" /\ IsSearchCall(CurrentLine) /\ IsResultLine(response)) =>
       \A i \in 1..Len(Payload(response).items) :
          \E j \in 1..Len(disk.walk) :
             /\ disk.walk[j].ok
             /\ disk.walk[j].path = Payload(response).items[i].path
             /\ disk.walk[j].ext = "org"

\* files named .ORG and .txt hold the keyword and are left out
C13_Witness ==
    /\ pc = "write"
    /\ IsSearchCall(CurrentLine)
    /\ IsResultLine(response)
    /\ KeywordsOf(CurrentLine) = <<"", "ab">>
    /\ Len(Payload(response).items) >= 2
    /\ \A p \in {"kb/b.txt", "kb/g.ORG", "kb/f"} :
          /\ Matches(p, KeywordsOf(CurrentLine)) > 0
          /\ \A i \in 1..Len(Payload(response).items) :
                Payload(response).items[i].path # p

(***************************************************************************)
(* C14: .org entries that cannot be read as text (and entries the walk     *)
(* reports as errors) do not fail the search; they are absent from the     *)
(* result, and the result is the one the search gives on the same          *)
(* filesystem without those entries.                                       *)
(***************************************************************************)
\* the filesystem without the entries that cannot be walked or read
WithoutUnreadable(d) ==
    LET readable(entry) ==
            /\ entry.ok
            /\ entry.path \in DOMAIN d.files
            /\ d.files[entry.path].readable
        kept == {p \in DOMAIN d.files : d.files[p].readable}
    IN  [dirs |-> d.dirs,
         walk |-> SelectSeq(d.walk, readable),
         files |-> [p \in kept |-> d.files[p]]]

UnreadableOrgEntries ==
    {disk.walk[j].path : j \in {i \in 1..Len(disk.walk) :
        /\ disk.walk[i].ok
        /\ disk.walk[i].ext = "org"
        /\ ~disk.files[disk.walk[i].path].readable}}

C14_UnreadableFilesDropped ==
    (/\ pc = "write"
     /\ IsSearchCall(CurrentLine)
     /\ server.config.knowledge.root_path \in disk.dirs
     /\ \A i \in 1..Len(KeywordsOf(CurrentLine)) : KeywordsOf(CurrentLine)[i] # "huge") =>
        /\ IsResultLine(response)
        /\ \A i \in 1..Len(Payload(response).items) :
              Payload(response).items[i].path \notin UnreadableOrgEntries
        /\ Payload(response).items =
              search_files(server.config, KeywordsOf(CurrentLine),
                           WithoutUnreadable(disk)).val

\* a search over a walk with an unreadable .org entry returned the other files
C14_Witness ==
    /\ pc = "write"
    /\ IsSearchCall(CurrentLine)
    /\ UnreadableOrgEntries = {"kb/d.org"}
    /\ WithoutUnreadable(disk) # disk
    /\ IsResultLine(response)
    /\ Len(Payload(response).items) = 2

(***************************************************************************)
(* C15: in a search_files call whose keywords is an array, the entries     *)
(* that are not strings are dropped and the search is invoked with the     *)
(* string entries in their order; the call is not answered with -32602,    *)
(* also when no entry is left.                                             *)
(***************************************************************************)
\* the string entries of an array, in their order
StringEntries(items) ==
    LET at == {i \in 1..Len(items) : items[i].t = "str"}
        nth(n) == CHOOSE i \in at : Cardinality({j \in at : j <= i}) = n
    IN  [n \in 1..Cardinality(at) |-> items[nth(n)].v]

RawKeywords(line) == Get(Get(Get(line, "params"), "arguments"), "keywords").v

C15_NonStringKeywordsDropped ==
    (pc = "write" /\ IsSearchCall(CurrentLine)) =>
       /\ ~IsErrorLine(response, -32602)
       /\ LastCall.line = Len(lines_read)
       /\ LastCall.invoked =
             <<[op |-> "search_files",
                keywords |-> StringEntries(RawKeywords(CurrentLine))]>>

\* a number between two strings was dropped; before that, a list of no strings
C15_Witness ==
    /\ pc = "write"
    /\ Len(dispatched) = 2
    /\ IsSearchCall(lines_read[1]) /\ IsSearchCall(lines_read[2])
    /\ RawKeywords(lines_read[1]) = <<Num(5), Null>>
    /\ dispatched[1].invoked = <<[op |-> "search_files", keywords |-> <<>>]>>
    /\ RawKeywords(lines_read[2]) = <<Str("a"), Num(5), Str("A")>>
    /\ dispatched[2].invoked = <<[op |-> "search_files", keywords |-> <<"a", "A">>]>>
    /\ ~IsErrorLine(stdout[1], -32602)
    /\ ~IsErrorLine(response, -32602)

(***************************************************************************)
(* C17: no empty-string keyword reaches the scoring step: when a search    *)
(* was invoked and scored the files, none of its keywords is empty.        *)
(***************************************************************************)
C17_NoEmptyKeywordScored ==
    (pc = "write" /\ IsSearchCall(CurrentLine) /\ IsResultLine(response)) =>
       \A i \in 1..Len(LastCall.invoked[1].keywords) :
          LastCall.invoked[1].keywords[i] # ""

(***************************************************************************)
(* C18: the payload of a get_contents call has exactly one entry for every *)
(* requested path (a path requested twice has one), none for a path that   *)
(* was not requested, and each entry is the file's text, the error         *)
(* message or the not-found marker of its path.                            *)
(***************************************************************************)
RequestedPaths(line) ==
    LET raw == Get(Get(Get(line, "params"), "arguments"), "file_paths").v
    IN  {raw[i].v : i \in {j \in 1..Len(raw) : raw[j].t = "str"}}

C18_PayloadMapsRequestedPaths ==
    (pc = "write" /\ IsContentsCall(CurrentLine)) =>
       /\ IsResultLine(response)
       /\ LET entries == Payload(response).entries
          IN  /\ {e[1] : e \in entries} = RequestedPaths(CurrentLine)
              /\ Cardinality(entries) = Cardinality(RequestedPaths(CurrentLine))
              /\ \A e \in entries :
                    e[2] = IF e[1] \notin DOMAIN disk.files THEN "File not found"
                           ELSE IF ~disk.files[e[1]].readable
                                THEN "Error reading file: io error"
                                ELSE disk.files[e[1]].content

\* a path requested twice has one entry
C18_Witness ==
    /\ pc = "write"
    /\ IsContentsCall(CurrentLine)
    /\ PathsOf(CurrentLine) = <<"kb/c.org", "kb/c.org">>
    /\ disk = DiskNotes
    /\ Payload(response).entries = {<<"kb/c.org", "abAB">>}

(***************************************************************************)
(* C16: no step of the server changes the tool catalog or the              *)
(* configuration, the catalog is the one registered at startup, and the    *)
(* response to a request does not depend on the requests handled before    *)
(* it: a line read twice is answered twice with the same response.         *)
(***************************************************************************)
C16_RequestsChangeNoServerState ==
    /\ [][server' = server]_vars
    /\ [](/\ server.tools = register_tools(<<>>)
          /\ \A j \in 1..Len(stdout) : \A k \in 1..Len(stdout) :
                lines_read[j] = lines_read[k] => stdout[j] = stdout[k])

\* the same list_tools request was answered twice
C16_Witness ==
    /\ Len(stdout) = 2
    /\ lines_read[1] = lines_read[2]
    /\ Get(lines_read[1], "method") = Str("list_tools")
    /\ IsResultLine(stdout[1])
    /\ stdout[1] = stdout[2]

(***************************************************************************)
(* The parallel scoring of one search, search.rs lines 42-81, step by      *)
(* step.  par.files are the candidates in walk order; task i scores        *)
(* par.files[i] on one of par.workers threads and leaves its Option in     *)
(* par.slots[i]; par.finished lists the tasks in the order they completed. *)
(***************************************************************************)
MaxWorkers == 2

\* the search requests that get as far as the scoring: root found, patterns compiled
ScoringLines ==
    {line \in SearchLines :
        /\ IsSearchCall(line)
        /\ \A i \in 1..Len(KeywordsOf(line)) : RegexCompiles(KeywordsOf(line)[i])}

\* lines 20-39 have run inside handle_request for the request just decoded
InitPar ==
    /\ \E max_files \in 0..MaxFilesBound : server = BrainServer_new(Config(max_files))
    /\ disk \in {d \in FileSystems : server.config.knowledge.root_path \in d.dirs}
    /\ pc = "handle"
    /\ \E line \in ScoringLines :
          /\ lines_read = <<line>>
          /\ request = from_str(line).val
          /\ \E workers \in 1..MaxWorkers :
                LET files == CollectOrgFiles(disk.walk)
                IN  par = [phase |-> "scoring",
                           keywords |-> KeywordsOf(line),
                           files |-> files,
                           workers |-> workers,
                           pending |-> 1..Len(files),
                           running |-> {},
                           slots |-> [i \in 1..Len(files) |-> <<>>],
                           finished |-> <<>>,
                           results |-> <<>>]
    /\ response = NoResponse
    /\ stdout = <<>>
    /\ dispatched = <<>>
    /\ main_result = "running"
    /\ cli = CliIdle

\* a free worker takes up the closure for one file
ParTaskStart ==
    /\ par.phase = "scoring"
    /\ Cardinality(par.running) < par.workers
    /\ \E i \in par.pending :
          par' = [par EXCEPT !.pending = @ \ {i}, !.running = @ \cup {i}]
    /\ UNCHANGED <<server, disk, pc, lines_read, request, response, stdout, dispatched,
                 main_result, cli>>

\* lines 44-64: the closure reads and scores its own file and yields Some or None
ParTaskFinish ==
    /\ par.phase = "scoring"
    /\ \E i \in par.running :
          par' = [par EXCEPT !.running = @ \ {i},
                             !.slots[i] = ScoreFiles(disk, par.keywords, <<par.files[i]>>),
                             !.finished = Append(@, i)]
    /\ UNCHANGED <<server, disk, pc, lines_read, request, response, stdout, dispatched,
                 main_result, cli>>

RECURSIVE Gather(_, _)
Gather(slots, order) ==
    IF order = <<>> THEN <<>> ELSE slots[Head(order)] \o Gather(slots, Tail(order))

\* a collect that takes the items in the order the tasks completed
ParCollect_CompletionOrder ==
    /\ par.phase = "scoring"
    /\ par.pending = {}
    /\ par.running = {}
    /\ par' = [par EXCEPT !.phase = "collected",
                          !.results = Gather(par.slots, par.finished)]
    /\ UNCHANGED <<server, disk, pc, lines_read, request, response, stdout, dispatched,
                 main_result, cli>>

\* line 65: collect() returns once every task is done, items in input order
ParCollect ==
    /\ par.phase = "scoring"
    /\ par.pending = {}
    /\ par.running = {}
    /\ par' = [par EXCEPT !.phase = "collected",
                          !.results = Gather(par.slots,
                                             [i \in 1..Len(par.files) |-> i])]
    /\ UNCHANGED <<server, disk, pc, lines_read, request, response, stdout, dispatched,
                 main_result, cli>>

\* lines 68-81: sort, truncate, convert
ParSortTruncate ==
    /\ par.phase = "collected"
    /\ LET sorted_results == truncate(sort_by(par.results),
                                      server.config.knowledge.max_files)
       IN  par' = [par EXCEPT !.phase = "done",
                              !.results = [i \in 1..Len(sorted_results) |->
                                              SearchResult(sorted_results[i])]]
    /\ UNCHANGED <<server, disk, pc, lines_read, request, response, stdout, dispatched,
                 main_result, cli>>

NextPar ==
    \/ ParTaskStart
    \/ ParTaskFinish
    \/ ParCollect
    \/ ParSortTruncate

SpecPar == InitPar /\ [][NextPar]_vars

(***************************************************************************)
(* C19: a scoring task writes nothing but its own result, which is the     *)
(* score of its own file whatever the other tasks did; the items are       *)
(* gathered, sorted and truncated only when no task is pending or running; *)
(* and the ranked list, ties included, is the one the sequential search    *)
(* returns, for every completion order and every number of workers.        *)
(***************************************************************************)
C19_RankingIndependentOfSchedule ==
    /\ Cardinality(par.running) <= par.workers
    /\ \A i \in 1..Len(par.files) :
          par.slots[i] = IF \E k \in 1..Len(par.finished) : par.finished[k] = i
                         THEN ScoreFiles(disk, par.keywords, <<par.files[i]>>)
                         ELSE <<>>
    /\ par.phase \in {"collected", "done"} =>
          /\ par.pending = {}
          /\ par.running = {}
          /\ {par.finished[k] : k \in 1..Len(par.finished)} = 1..Len(par.files)
    /\ par.phase = "collected" =>
          par.results = ScoreFiles(disk, par.keywords, par.files)
    /\ par.phase = "done" =>
          par.results = search_files(server.config, par.keywords, disk).val

\* two workers finished two equally scored files against the walk order, and
\* the truncation cut between them
C19_Witness ==
    /\ par.phase = "done"
    /\ par.workers = 2
    /\ Len(par.results) = 2
    /\ \E j \in 1..Len(par.finished) : \E k \in 1..Len(par.finished) :
          /\ j < k
          /\ par.finished[j] > par.finished[k]
          /\ read_to_string(disk, par.files[par.finished[j]]).ok
          /\ Score(par.keywords, read_to_string(disk, par.files[par.finished[j]]).val) =
                par.results[2].relevance
          /\ par.files[par.finished[k]] = par.results[2].path

(***************************************************************************)
(* The command-line tool, src/main.rs.  cli.pc is the position in run and  *)
(* main; cli.stages lists the fallible calls made so far and cli.outcomes  *)
(* what each of them returned; cli.printed is what went to stdout.         *)
(* The modules config, search and content of the tool are its              *)
(* collaborators: the search is the search engine above, the other two     *)
(* return an Ok or an Err.                                                 *)
(***************************************************************************)
None == [some |-> FALSE, val |-> 0]
Some(val) == [some |-> TRUE, val |-> val]

\* lines 17-35: Mode and OutputFormat
Modes == {"ExtractOnly", "SearchOnly", "GenerateResponse"}
OutputFormats == {"Text", "Json"}

\* what extract_search_terms may hand back for a query
SearchTerms == {<<>>, <<"a", "A">>, <<"aa">>, <<"huge">>}

\* the fallible calls of run, in program order
Pipeline ==
    <<"load_config", "OllamaClient::new", "extract_search_terms", "search_files",
      "get_contents", "generate_response">>

\* the search engine, called directly
cli_search_files(config, search_terms, fs) == search_files(config, search_terms, fs)

\* content retrieval of the tool: the text handed to generate_response, or a failure
cli_get_contents(file_paths) == {Ok(file_paths), Err("content retrieval failed")}

\* lines 72-73: Args::parse has run
InitCli ==
    /\ \E mode \in Modes : \E format \in OutputFormats :
       \E max_files \in {None} \cup {Some(n) : n \in 0..MaxFilesBound} :
          cli = [pc |-> "load_config",
                 mode |-> mode,
                 format |-> format,
                 max_files |-> max_files,
                 config |-> Config(0),
                 stages |-> <<>>,
                 outcomes |-> <<>>,
                 search_terms |-> <<>>,
                 search_results |-> <<>>,
                 file_paths |-> <<>>,
                 printed |-> <<>>,
                 result |-> "running",
                 exit_code |-> -1]
    /\ disk \in FileSystems
    /\ server = BrainServer_new(Config(0))
    /\ pc = "read"
    /\ lines_read = <<>>
    /\ request = NoRequest
    /\ response = NoResponse
    /\ stdout = <<>>
    /\ dispatched = <<>>
    /\ main_result = "running"
    /\ par = ParIdle

\* the record after a call returned: `?` leaves run with the Err
CliAfter(stage, ok, next_pc) ==
    [cli EXCEPT !.stages = Append(@, stage),
                !.outcomes = Append(@, IF ok THEN "ok" ELSE "err"),
                !.pc = IF ok THEN next_pc ELSE "returned",
                !.result = IF ok THEN @ ELSE "Err"]

\* println! only in text format
TextOnly(format, items) == IF format = "Text" THEN items ELSE <<>>
JsonOnly(format, items) == IF format = "Json" THEN items ELSE <<>>

\* lines 76-84: load the configuration, then apply --max-files
CliLoadConfig ==
    /\ cli.pc = "load_config"
    /\ \E loaded \in {Err("config")} \cup {Ok(Config(n)) : n \in 0..MaxFilesBound} :
          cli' = [CliAfter("load_config", loaded.ok, "new_client") EXCEPT
                     !.config = IF ~loaded.ok THEN @
                                ELSE IF cli.max_files.some
                                THEN [loaded.val EXCEPT
                                         !.knowledge.max_files = cli.max_files.val]
                                ELSE loaded.val]
    /\ UNCHANGED <<server, disk, pc, lines_read, request, response, stdout, dispatched,
                 main_result, par>>

\* lines 87-91
CliNewClient ==
    /\ cli.pc = "new_client"
    /\ \E ok \in BOOLEAN : cli' = CliAfter("OllamaClient::new", ok, "extract")
    /\ UNCHANGED <<server, disk, pc, lines_read, request, response, stdout, dispatched,
                 main_result, par>>

\* a run without the extract-only return: every mode goes on to the search
CliExtract_IgnoresMode ==
    /\ cli.pc = "extract"
    /\ \E extracted \in {Err("ollama")} \cup {Ok(t) : t \in SearchTerms} :
          LET after == CliAfter("extract_search_terms", extracted.ok, "search")
              announced == cli.printed \o TextOnly(cli.format, <<"Extracting search terms">>)
          IN  cli' = IF ~extracted.ok
                     THEN [after EXCEPT !.printed = announced]
                     ELSE [after EXCEPT
                              !.search_terms = extracted.val,
                              !.printed = announced
                                  \o TextOnly(cli.format, <<"Search terms">>)]
    /\ UNCHANGED <<server, disk, pc, lines_read, request, response, stdout, dispatched,
                 main_result, par>>

\* lines 94-115
CliExtract ==
    /\ cli.pc = "extract"
    /\ \E extracted \in {Err("ollama")} \cup {Ok(t) : t \in SearchTerms} :
          LET after == CliAfter("extract_search_terms", extracted.ok, "search")
              announced == cli.printed \o TextOnly(cli.format, <<"Extracting search terms">>)
          IN  cli' = IF ~extracted.ok
                     THEN [after EXCEPT !.printed = announced]
                     ELSE IF cli.mode = "ExtractOnly"
                     THEN [after EXCEPT
                              !.search_terms = extracted.val,
                              !.printed = announced
                                  \o TextOnly(cli.format, <<"Search terms">>)
                                  \o JsonOnly(cli.format, <<"BrainResponse">>),
                              !.pc = "returned",
                              !.result = "Ok"]
                     ELSE [after EXCEPT
                              !.search_terms = extracted.val,
                              !.printed = announced
                                  \o TextOnly(cli.format, <<"Search terms">>)]
    /\ UNCHANGED <<server, disk, pc, lines_read, request, response, stdout, dispatched,
                 main_result, par>>

\* what run prints between the search and the mode check, lines 123-133
SearchReport(format, search_results) ==
    TextOnly(format, (IF search_results = <<>> THEN <<"No matching files found.">>
                      ELSE <<>>) \o <<"Found matching files">>)

\* a run that goes on with no results when the search fails (unwrap_or_default)
CliSearch_IgnoresFailure ==
    /\ cli.pc = "search"
    /\ LET searched == cli_search_files(cli.config, cli.search_terms, disk)
           search_results == IF searched.ok THEN searched.val ELSE <<>>
           after == [CliAfter("search_files", TRUE, "get_contents") EXCEPT
                        !.outcomes = Append(cli.outcomes,
                                            IF searched.ok THEN "ok" ELSE "err")]
           announced == cli.printed \o TextOnly(cli.format, <<"Searching files...">>)
       IN  cli' = IF cli.mode = "SearchOnly"
                  THEN [after EXCEPT
                           !.search_results = search_results,
                           !.printed = announced
                               \o SearchReport(cli.format, search_results)
                               \o JsonOnly(cli.format, <<"BrainResponse">>),
                           !.pc = "returned",
                           !.result = "Ok"]
                  ELSE [after EXCEPT
                           !.search_results = search_results,
                           !.printed = announced
                               \o SearchReport(cli.format, search_results)]
    /\ UNCHANGED <<server, disk, pc, lines_read, request, response, stdout, dispatched,
                 main_result, par>>

\* lines 118-147
CliSearch ==
    /\ cli.pc = "search"
    /\ LET searched == cli_search_files(cli.config, cli.search_terms, disk)
           after == CliAfter("search_files", searched.ok, "get_contents")
           announced == cli.printed \o TextOnly(cli.format, <<"Searching files...">>)
       IN  cli' = IF ~searched.ok
                  THEN [after EXCEPT !.printed = announced]
                  ELSE IF cli.mode = "SearchOnly"
                  THEN [after EXCEPT
                           !.search_results = searched.val,
                           !.printed = announced
                               \o SearchReport(cli.format, searched.val)
                               \o JsonOnly(cli.format, <<"BrainResponse">>),
                           !.pc = "returned",
                           !.result = "Ok"]
                  ELSE [after EXCEPT
                           !.search_results = searched.val,
                           !.printed = announced
                               \o SearchReport(cli.format, searched.val)]
    /\ UNCHANGED <<server, disk, pc, lines_read, request, response, stdout, dispatched,
                 main_result, par>>

\* lines 150-158
CliGetContents ==
    /\ cli.pc = "get_contents"
    /\ LET file_paths == [i \in 1..Len(cli.search_results) |-> cli.search_results[i].path]
       IN  \E contents \in cli_get_contents(file_paths) :
              cli' = [CliAfter("get_contents", contents.ok, "generate") EXCEPT
                         !.file_paths = file_paths,
                         !.printed = @ \o TextOnly(cli.format,
                                                   <<"Retrieving file contents...">>)]
    /\ UNCHANGED <<server, disk, pc, lines_read, request, response, stdout, dispatched,
                 main_result, par>>

\* lines 161-181: the answer is printed as text or inside the JSON document
CliGenerate ==
    /\ cli.pc = "generate"
    /\ \E ok \in BOOLEAN :
          LET after == CliAfter("generate_response", ok, "returned")
              announced == cli.printed \o TextOnly(cli.format, <<"Generating response...">>)
          IN  cli' = IF ~ok
                     THEN [after EXCEPT !.printed = announced]
                     ELSE [after EXCEPT
                              !.printed = announced
                                  \o TextOnly(cli.format, <<"Response:", "answer">>)
                                  \o JsonOnly(cli.format, <<"BrainResponse with answer">>),
                              !.result = "Ok"]
    /\ UNCHANGED <<server, disk, pc, lines_read, request, response, stdout, dispatched,
                 main_result, par>>

\* lines 184-200: main exits with 1 on Err and returns Ok(()) otherwise
CliMain ==
    /\ cli.pc = "returned"
    /\ cli' = [cli EXCEPT !.pc = "exited",
                          !.exit_code = IF cli.result = "Err" THEN 1 ELSE 0]
    /\ UNCHANGED <<server, disk, pc, lines_read, request, response, stdout, dispatched,
                 main_result, par>>

NextCli ==
    \/ CliLoadConfig
    \/ CliNewClient
    \/ CliExtract
    \/ CliSearch
    \/ CliGetContents
    \/ CliGenerate
    \/ CliMain

SpecCli == InitCli /\ [][NextCli]_vars

AnswerPrinted ==
    \E i \in 1..Len(cli.printed) : cli.printed[i] \in {"answer", "BrainResponse with answer"}

(***************************************************************************)
(* C20: the calls of the command-line pipeline are made in the fixed       *)
(* order configuration, client, extract terms, search, retrieve contents,  *)
(* generate answer; a call that fails is the last one made, after it no    *)
(* answer is printed, run returns the failure, and the process exits with  *)
(* status 1.                                                               *)
(***************************************************************************)
C20_FailureStopsPipeline ==
    /\ Len(cli.stages) <= Len(Pipeline)
    /\ cli.stages = SubSeq(Pipeline, 1, Len(cli.stages))
    /\ Len(cli.outcomes) = Len(cli.stages)
    /\ \A k \in 1..Len(cli.outcomes) :
          cli.outcomes[k] = "err" =>
             /\ k = Len(cli.stages)
             /\ cli.pc \in {"returned", "exited"}
             /\ cli.result = "Err"
             /\ ~AnswerPrinted
             /\ cli.pc = "exited" => cli.exit_code = 1
    /\ AnswerPrinted => cli.stages = Pipeline

\* the search failed after the terms were extracted, and the process has exited
C20_Witness ==
    /\ cli.pc = "exited"
    /\ cli.mode = "GenerateResponse"
    /\ cli.stages = SubSeq(Pipeline, 1, 4)
    /\ cli.outcomes = <<"ok", "ok", "ok", "err">>
    /\ cli.exit_code = 1
    /\ cli.printed = <<"Extracting search terms", "Search terms", "Searching files...">>

\* content retrieval failed: nothing was generated
C20_WitnessContents ==
    /\ cli.pc = "exited"
    /\ cli.stages = SubSeq(Pipeline, 1, 5)
    /\ cli.outcomes[5] = "err"
    /\ Len(cli.file_paths) = 2
    /\ cli.exit_code = 1

Ran(stage) == \E k \in 1..Len(cli.stages) : cli.stages[k] = stage

Completed(stage) ==
    \E k \in 1..Len(cli.stages) : cli.stages[k] = stage /\ cli.outcomes[k] = "ok"

(***************************************************************************)
(* C21: in extract-only mode neither the search nor content retrieval nor  *)
(* answer generation is called; in search-only mode neither content        *)
(* retrieval nor answer generation is; answer generation is called only in *)
(* generate-response mode and only after the search and content retrieval  *)
(* have succeeded; content retrieval is handed exactly the paths of the    *)
(* search results, in their order, and with --max-files given the search   *)
(* ran under that count and the paths are no more than it.                 *)
(***************************************************************************)
C21_ModeBoundsPipeline ==
    /\ cli.mode = "ExtractOnly" =>
          ~Ran("search_files") /\ ~Ran("get_contents") /\ ~Ran("generate_response")
    /\ cli.mode = "SearchOnly" =>
          ~Ran("get_contents") /\ ~Ran("generate_response")
    /\ Ran("generate_response") =>
          /\ cli.mode = "GenerateResponse"
          /\ Completed("search_files")
          /\ Completed("get_contents")
    /\ (Completed("load_config") /\ cli.max_files.some) =>
          cli.config.knowledge.max_files = cli.max_files.val
    /\ Ran("get_contents") =>
          LET searched == cli_search_files(cli.config, cli.search_terms, disk)
          IN  /\ cli.mode = "GenerateResponse"
              /\ searched.ok
              /\ cli.file_paths = [i \in 1..Len(searched.val) |-> searched.val[i].path]
              /\ cli.max_files.some => Len(cli.file_paths) <= cli.max_files.val

\* the answer was generated from the one path --max-files 1 left of the three
\* files that match
C21_Witness ==
    /\ cli.pc = "exited"
    /\ cli.mode = "GenerateResponse"
    /\ cli.max_files = Some(1)
    /\ cli.search_terms = <<"a", "A">>
    /\ cli.stages = Pipeline
    /\ Len(cli.file_paths) = 1
    /\ AnswerPrinted
    /\ cli.exit_code = 0

\* extract-only and search-only runs that returned Ok before the later calls
C21_WitnessExtractOnly ==
    /\ cli.pc = "exited"
    /\ cli.mode = "ExtractOnly"
    /\ cli.stages = SubSeq(Pipeline, 1, 3)
    /\ cli.exit_code = 0

C21_WitnessSearchOnly ==
    /\ cli.pc = "exited"
    /\ cli.mode = "SearchOnly"
    /\ cli.stages = SubSeq(Pipeline, 1, 4)
    /\ Len(cli.search_results) = 2
    /\ cli.exit_code = 0

(***************************************************************************)
(* C22: whenever the loop waits for a line, end of input is accepted; the  *)
(* step that meets end of input writes nothing more, ends the loop and     *)
(* makes main return Ok; and when main has returned Ok nothing further     *)
(* happens and one response line has been written for every line read,     *)
(* whether it decoded or not.                                              *)
(***************************************************************************)
C22_EndOfInputEndsLoop ==
    /\ [](pc = "read" => ENABLED ReadEof)
    /\ [][(pc = "read" /\ lines_read' = lines_read) =>
             (pc' = "done" /\ main_result' = "Ok" /\ stdout' = stdout)]_vars
    /\ []((pc = "done" /\ main_result = "Ok") =>
             /\ Len(stdout) = Len(lines_read)
             /\ \A k \in 1..Len(lines_read) :
                   LacksEnvelope(lines_read[k]) => IsErrorLine(stdout[k], -32700)
             /\ ~ENABLED Next)

\* the input ended after a line that did not decode and a request: both answered
C22_Witness ==
    /\ pc = "done"
    /\ main_result = "Ok"
    /\ Len(lines_read) = 2
    /\ LacksEnvelope(lines_read[1])
    /\ ~LacksEnvelope(lines_read[2])
    /\ Len(stdout) = 2
    /\ IsResultLine(stdout[2])

\* the same line tagged "2.0"
Retagged(line) == Obj([line.v EXCEPT !.jsonrpc = Str("2.0")])

AnswerTo(line) == handle_request(server, from_str(line).val, disk)

(***************************************************************************)
(* C23: every line written carries jsonrpc "2.0", and a line that decodes  *)
(* is answered, and its tool invoked, exactly as the same line tagged      *)
(* "2.0" would be, whatever string its jsonrpc field holds.                *)
(***************************************************************************)
C23_VersionTagNeverChecked ==
    /\ \A k \in 1..Len(stdout) : stdout[k].jsonrpc = "2.0"
    /\ pc = "write" => response.jsonrpc = "2.0"
    /\ \A k \in 1..Len(stdout) :
          Decodable(lines_read[k]) =>
             stdout[k] = to_string(AnswerTo(Retagged(lines_read[k])).reply)
    /\ \A i \in 1..Len(dispatched) :
          dispatched[i].invoked = AnswerTo(Retagged(lines_read[dispatched[i].line])).invoked

\* a search and a list_tools request tagged "1.0" were both served
C23_Witness ==
    /\ Len(stdout) = 2
    /\ Get(lines_read[1], "jsonrpc") = Str("1.0")
    /\ Get(lines_read[2], "jsonrpc") = Str("1.0")
    /\ IsSearchCall(lines_read[1])
    /\ Len(dispatched[1].invoked) = 1
    /\ IsResultLine(stdout[1])
    /\ Len(Payload(stdout[1]).items) > 0
    /\ Get(lines_read[2], "method") = Str("list_tools")
    /\ IsResultLine(stdout[2])

====
